---- MODULE Spec2Model ----
(***************************************************************************)
(* Photo storage microservice: the pluggable file storage (core/storage.py) *)
(* the job submitter on its ZeroMQ REQ socket (core/processing.py) and the  *)
(* request handlers of main.py, as a state machine.                         *)
(*                                                                          *)
(* Specifications:                                                          *)
(*   Spec           the service: startup, request handlers, worker          *)
(*   StorageSpec    the storage backend alone, driven with arbitrary names  *)
(*   VariantsSpec   the two storage variants driven side by side            *)
(*   SelectorSpec   get_storage_instance on any Settings object             *)
(*   SubmitterSpec  the resolution of the job submitter dependency          *)
(*   DecodeSpec     the decoding of a serialized job envelope               *)
(***************************************************************************)
EXTENDS Integers, Sequences, FiniteSets, TLC

VARIABLES
    phase,      \* process: "boot" | "running" | "failed"
    settings,   \* core.configuration.settings (the Settings object)
    store,      \* backend content: local = file path -> bytes, azure = blob key -> bytes
    lastOp,     \* history: the last storage call, or the last request that was answered
                \* otherwise than by a 404 for an unknown image or job, and its outcome
    images,     \* table image: id -> record (committed rows)
    jobs,       \* table processingjob: id -> record (committed rows)
    nextImage,  \* number of Image ids handed out (uuid4: never reused)
    nextJob,    \* number of ProcessingJob ids handed out (uuid4: never reused)
    req,        \* per request task of submit_new_processing_job: its position and locals
    awaiting,   \* REQ socket state: a request is out and its reply not yet taken
    toWorker,   \* messages sent on the socket, not yet taken by the worker
    toService,  \* replies of the worker, not yet taken by a recv
    sentLog,    \* history: every envelope ever put on the channel
    submitRes,  \* history: job id -> how submit_processing_job ended for it
                \* ("ok", or the exception raised)
    fin,        \* the finalize callback in progress (between storage write and commit)
    instances,  \* Singleton._instances[ImageJobSubmitter]: the instance kept, or none
    sockets,    \* number of ImageJobSubmitter.__init__ runs: contexts, sockets, connections
    dep,        \* per thread of the pool: its resolution of the job submitter dependency
    mirror      \* content of the object store variant driven side by side with the
                \* local one (VariantsSpec)

\* The variables the request handlers never touch.
creation == <<instances, sockets, dep, mirror>>

vars == <<phase, settings, store, lastOp, images, jobs, nextImage, nextJob,
          req, awaiting, toWorker, toService, sentLog, submitRes, fin, creation>>

None == "None"

-----------------------------------------------------------------------------
(* Bounds of the model *)

MaxImages == 3
MaxJobs == 2
\* POST /images is followed while fewer than MaxUploads image ids are handed out: the
\* ids after them go to the results of finalize callbacks.
MaxUploads == 1

(***************************************************************************)
(* Names are strings split at "/": <<"..", "a">> is "../a", a leading ""    *)
(* segment makes the name absolute (<<"", "srv", "secret">> = /srv/secret). *)
(***************************************************************************)
PlainNames == { <<"a">>, <<"b">> }
TraversalNames == { <<"", "srv", "secret">>, <<"..", "a">> }
DirectoryNames == { <<"..">>, <<".">> }
AllNames == PlainNames \cup TraversalNames \cup DirectoryNames

\* File contents. A file opened for writing and never written is empty.
Truncated == ""
Bytes == {"x", "y"}
SecretBytes == "s"
NoName == << >>

-----------------------------------------------------------------------------
(* core/storage.py *)

BaseDir == <<"srv", "root">>
OutsideFile == <<"srv", "secret">>

\* pathlib: Path(file_name).name -- the final component, "" when there is none.
\* Empty and "." components are dropped by the parser, ".." is kept.
PathParts(name) == SelectSeq(name, LAMBDA s : s \notin {"", "."})

PathName(name) ==
    LET parts == PathParts(name)
    IN  IF Len(parts) = 0 THEN "" ELSE parts[Len(parts)]

\* Mutant: the name is joined to the base directory as given.
LocalPath_Unstripped(name) ==
    IF Len(name) > 0 /\ name[1] = "" THEN PathParts(name) ELSE BaseDir \o PathParts(name)

\* self._base_directory / file_name_only
LocalPath(name) ==
    IF PathName(name) = "" THEN BaseDir ELSE BaseDir \o <<PathName(name)>>

\* The operating system's resolution of ".." components of a path.
RECURSIVE Resolve(_)
Resolve(path) ==
    IF Len(path) = 0 THEN << >>
    ELSE LET init == Resolve(SubSeq(path, 1, Len(path) - 1))
             last == path[Len(path)]
         IN  IF last = ".." THEN
                 (IF Len(init) = 0 THEN << >> ELSE SubSeq(init, 1, Len(init) - 1))
             ELSE Append(init, last)

IsPrefix(p, q) == Len(p) <= Len(q) /\ SubSeq(q, 1, Len(p)) = p

\* A path names a directory: the base directory, one above it, or one holding a file.
IsDirectory(st, path) ==
    \/ IsPrefix(path, BaseDir)
    \/ \E f \in DOMAIN st : Len(path) < Len(f) /\ IsPrefix(path, f)

\* The outcome of a storage call: the exception raised ("" when none), the content
\* afterwards, the name returned (upload) and the bytes written out (download).
Result(err, st, name, data) == [err |-> err, store |-> st, name |-> name, data |-> data]

Put(st, key, data) == [k \in DOMAIN st \cup {key} |-> IF k = key THEN data ELSE st[k]]
Drop(st, key) == [k \in DOMAIN st \ {key} |-> st[k]]

Faults == {"none", "open", "write"}

\* Mutant: the file is opened without truncation, an existing file keeps its content.
LocalUpload_KeepExisting(st, name, data, fault) ==
    LET path == Resolve(LocalPath(name))
    IN  IF IsDirectory(st, path) THEN Result("IsADirectoryError", st, NoName, None)
        ELSE IF fault # "none" THEN Result("OSError", st, NoName, None)
        ELSE IF path \in DOMAIN st THEN Result("", st, <<PathName(LocalPath(name))>>, None)
        ELSE Result("", Put(st, path, data), <<PathName(LocalPath(name))>>, None)

\* LocalFileSystemStorage.upload_file: open(path, "wb") truncates, then writes.
LocalUpload(st, name, data, fault) ==
    LET path == Resolve(LocalPath(name))
    IN  IF IsDirectory(st, path) THEN Result("IsADirectoryError", st, NoName, None)
        ELSE IF fault = "open" THEN Result("PermissionError", st, NoName, None)
        ELSE IF fault = "write" THEN Result("OSError", Put(st, path, Truncated), NoName, None)
        ELSE Result("", Put(st, path, data), <<PathName(LocalPath(name))>>, None)

\* LocalFileSystemStorage.download_file
LocalDownload(st, name) ==
    LET path == Resolve(LocalPath(name))
    IN  IF IsDirectory(st, path) THEN Result("IsADirectoryError", st, NoName, None)
        ELSE IF path \notin DOMAIN st THEN Result("FileNotFoundError", st, NoName, None)
        ELSE Result("", st, NoName, st[path])

\* Mutant: unlink(missing_ok=True), a missing file is silently skipped.
LocalDelete_MissingOk(st, name) ==
    LET path == Resolve(LocalPath(name))
    IN  IF IsDirectory(st, path) THEN Result("IsADirectoryError", st, NoName, None)
        ELSE IF path \notin DOMAIN st THEN Result("", st, NoName, None)
        ELSE Result("", Drop(st, path), NoName, None)

\* LocalFileSystemStorage.delete_file: unlink(missing_ok=False)
LocalDelete(st, name) ==
    LET path == Resolve(LocalPath(name))
    IN  IF IsDirectory(st, path) THEN Result("IsADirectoryError", st, NoName, None)
        ELSE IF path \notin DOMAIN st THEN Result("FileNotFoundError", st, NoName, None)
        ELSE Result("", Drop(st, path), NoName, None)

\* AzureBlobStorage.upload_file: upload_blob without overwrite refuses an existing blob.
AzureUpload(st, name, data, fault) ==
    IF fault # "none" THEN Result("ServiceRequestError", st, NoName, None)
    ELSE IF name \in DOMAIN st THEN Result("ResourceExistsError", st, NoName, None)
    ELSE Result("", Put(st, name, data), name, None)

\* AzureBlobStorage.download_file
AzureDownload(st, name) ==
    IF name \notin DOMAIN st THEN Result("ResourceNotFoundError", st, NoName, None)
    ELSE Result("", st, NoName, st[name])

\* AzureBlobStorage.delete_file
AzureDelete(st, name) ==
    IF name \notin DOMAIN st THEN Result("ResourceNotFoundError", st, NoName, None)
    ELSE Result("", Drop(st, name), NoName, None)

Backends == {"local", "azure"}

\* Mutant: the discriminator is compared as configured.
Lower_AsGiven(s) == s

\* str.lower() on the configured discriminator
Lower(s) ==
    CASE s = "LOCAL" -> "local"
      [] s = "Azure" -> "azure"
      [] OTHER -> s

\* get_storage_instance with the backend's __init__: the variant, or the error raised.
GetStorageInstance(cfg) ==
    LET storage_backend == Lower(cfg.storage_backend)
    IN  IF storage_backend = "local" THEN
            (IF cfg.local_filesystem_base_directory = None
             THEN [err |-> "RuntimeError", kind |-> None]
             ELSE [err |-> "", kind |-> "local"])
        ELSE IF storage_backend = "azure" THEN
            (IF \/ cfg.azure_blob_storage_shared_key = None
                \/ cfg.azure_blob_storage_url = None
                \/ cfg.azure_blob_storage_container_name = None
             THEN [err |-> "RuntimeError", kind |-> None]
             ELSE [err |-> "", kind |-> "azure"])
        ELSE [err |-> "RuntimeError", kind |-> None]

UploadFile(kind, st, name, data, fault) ==
    IF kind = "local" THEN LocalUpload(st, name, data, fault)
    ELSE AzureUpload(st, name, data, fault)

DownloadFile(kind, st, name) ==
    IF kind = "local" THEN LocalDownload(st, name) ELSE AzureDownload(st, name)

DeleteFile(kind, st, name) ==
    IF kind = "local" THEN LocalDelete(st, name) ELSE AzureDelete(st, name)

\* What a backend holds at construction: the local file system has a file outside
\* the base directory, the container is empty.
InitialStore(kind) ==
    IF kind = "local" THEN [p \in {OutsideFile} |-> SecretBytes]
    ELSE [p \in {} |-> SecretBytes]

\* The key a backend stores a name under.
StoredKey(kind, name) == IF kind = "local" THEN Resolve(LocalPath(name)) ELSE name

NotFoundErrors == {"FileNotFoundError", "ResourceNotFoundError"}

-----------------------------------------------------------------------------
(* core/configuration.py *)

Unset == "<unset>"

\* The environment the process is started in: each variable set or not.
Environments ==
    [storage_backend : {"local", "azure", "s3", Unset},
     local_filesystem_base_directory : {"/srv/root", Unset},
     azure_blob_storage_url : {"url", Unset},
     azure_blob_storage_container_name : {"container", Unset},
     azure_blob_storage_shared_key : {"key", Unset}]

\* settings = Settings(): no field has a default, so a variable that is not set
\* fails the validation when the module is imported.
LoadSettings(env) ==
    IF \E f \in DOMAIN env : env[f] = Unset
    THEN [err |-> "ValidationError", settings |-> env]
    ELSE [err |-> "", settings |-> env]

\* A Settings object of the given variant with every field of the variant present.
ValidSettings(kind) ==
    [storage_backend |-> kind,
     local_filesystem_base_directory |-> "/srv/root",
     azure_blob_storage_url |-> "url",
     azure_blob_storage_container_name |-> "container",
     azure_blob_storage_shared_key |-> "key"]

\* The variant the storage dependency resolves to in this process.
Kind == GetStorageInstance(settings).kind

-----------------------------------------------------------------------------
(* History of the last finished call *)

Op(op, err, name, data, ret, id, arg, was) ==
    [op |-> op, err |-> err, name |-> name, data |-> data, ret |-> ret, id |-> id,
     arg |-> arg, was |-> was]

NoOp == Op("none", "", NoName, None, NoName, 0, None, None)

StorageOp(op, name, data, r) == Op(op, r.err, name, data, r.name, 0, None, None)

-----------------------------------------------------------------------------
(* core/processing.py, core/database/models.py: the data of the service *)

\* The values of the ImageFormat enumeration (its member DIP has the value "DIB").
ImageFormatValues ==
    {"BLP", "BMP", "BUFR", "DDS", "DIB", "EPS", "GIF", "GRIB", "HDF5", "ICNS", "ICO", "IM",
     "JPEG", "JPEG2000", "MPS", "PCX", "PNG", "PPM", "SGI", "SPIDER", "TGA", "TIFF", "WEBP",
     "WMF"}

\* Inputs of the requests
Users == {"u1", "u2"}
\* The users who upload images; the others own nothing and only ask.
Uploaders == {"u1"}
Tasks == {"t1", "t2"}
RequestFormats == {"PNG", "DIP"}
Sizes == {100}
JobNames == {"job"}
Statuses == {"processing", "success"}
UploadNames == { <<"..", "a">> }
UploadBytes == {"x"}
UploadFaults == {"none", "write"}
Replies == {"ok", "rejected", "malformed"}

\* An absent id (None)
NoId == 0
ImageIds == 1..MaxImages
JobIds == 1..MaxJobs

\* InternalImageProcessingJob
InternalImageProcessingJob(job_id, image_path, width, height, format) ==
    [job_id |-> job_id, image_path |-> image_path, resize_image_to_width |-> width,
     resize_image_to_height |-> height, change_to_format |-> format]

NoEnvelope == InternalImageProcessingJob(NoId, NoName, 0, 0, None)

\* JSON values on the wire and in job_json_payload: null, a string, a number.
JsonNull == [t |-> "null", v |-> None]
JsonStr(v) == [t |-> "str", v |-> v]
JsonInt(v) == [t |-> "int", v |-> v]

\* job.model_dump_json(): an absent job_id is null, a UUID its string.
ModelDumpJson(job) ==
    [job_id |-> IF job.job_id = NoId THEN JsonNull ELSE JsonStr(job.job_id),
     image_path |-> JsonStr(job.image_path),
     resize_image_to_width |-> JsonInt(job.resize_image_to_width),
     resize_image_to_height |-> JsonInt(job.resize_image_to_height),
     change_to_format |-> JsonStr(job.change_to_format)]

\* InternalImageProcessingJob.model_validate_json(): each field is validated against
\* its declared type (Optional[UUID], str, int, int, str); change_to_format is
\* declared str, so every string passes.
ModelValidateJson(wire) ==
    IF /\ wire.job_id.t \in {"null", "str"}
       /\ wire.image_path.t = "str"
       /\ wire.resize_image_to_width.t = "int"
       /\ wire.resize_image_to_height.t = "int"
       /\ wire.change_to_format.t = "str"
    THEN [err |-> "",
          job |-> InternalImageProcessingJob(
                      IF wire.job_id.t = "null" THEN NoId ELSE wire.job_id.v,
                      wire.image_path.v, wire.resize_image_to_width.v,
                      wire.resize_image_to_height.v, wire.change_to_format.v)]
    ELSE [err |-> "ValidationError", job |-> NoEnvelope]

\* Mutant: a new job starts with a status.
ProcessingJob_Pending(job_name, source, payload) ==
    [job_name |-> job_name, source_image_id |-> source, destination_image_id |-> NoId,
     job_json_payload |-> payload, status |-> "pending"]

\* ProcessingJob
ProcessingJob(job_name, source, payload) ==
    [job_name |-> job_name, source_image_id |-> source, destination_image_id |-> NoId,
     job_json_payload |-> payload, status |-> None]

NoRow == ProcessingJob(None, NoId, ModelDumpJson(NoEnvelope))

\* Image
Image(file_name, file_path, owner) ==
    [file_name |-> file_name, file_path |-> file_path, owned_by_user_id |-> owner]

\* A request task of submit_new_processing_job: where it is, and its locals
\* (the id of its ProcessingJob, the row added to its session, the envelope).
IdleReq == [pc |-> "idle", job |-> NoId, row |-> NoRow, envelope |-> NoEnvelope]

IdleFin == [pc |-> "idle", job |-> NoId, path |-> NoName, file_name |-> NoName,
            data |-> None, owner |-> None, err |-> ""]

\* Threads of the pool that resolve the job submitter dependency of a request.
Threads == {"t1", "t2", "t3"}

\* The resolution of the job submitter dependency by a thread: where it is in
\* Singleton.__call__, and the instance it has built or been given.
IdleDep == [pc |-> "idle", obj |-> NoId]

\* No submitter dependency is being resolved, nothing is driven side by side.
CreationIdle ==
    /\ instances = NoId
    /\ sockets = 0
    /\ dep = [t \in Threads |-> IdleDep]
    /\ mirror = << >>

\* File names the worker posts results under
ResultNames == { <<"a">> }

\* The storage dependency of a request cannot be resolved.
StorageFails == GetStorageInstance(settings).err # ""

\* change_to_format in set(img_format.value for img_format in ImageFormat)
SupportedFormat_Any(format) == TRUE

SupportedFormat(format) == format \in ImageFormatValues

\* database.add: the row is pending in the request's session, the table is unchanged.
RowsAfterAdd_Committed(table, id, row) == Put(table, id, row)

RowsAfterAdd(table, id, row) == table

\* A request that ends without database.commit() leaves nothing of its session.
SessionDiscard(t) == [req EXCEPT ![t] = IdleReq]

\* The image is the source or the destination of a job (foreign keys of ProcessingJob).
Referenced(table, i) ==
    \E j \in DOMAIN table :
        table[j].source_image_id = i \/ table[j].destination_image_id = i

\* Mutant: the destination foreign key is set to null when its image is deleted.
DeleteImageRow_SetNull(imgs, table, i) ==
    IF \E j \in DOMAIN table : table[j].source_image_id = i
    THEN [err |-> "IntegrityError", images |-> imgs, jobs |-> table]
    ELSE [err |-> "", images |-> Drop(imgs, i),
          jobs |-> [j \in DOMAIN table |->
                      IF table[j].destination_image_id = i
                      THEN [table[j] EXCEPT !.destination_image_id = NoId]
                      ELSE table[j]]]

\* database.delete(target_image); database.commit(): refused while a job refers to it.
DeleteImageRow(imgs, table, i) ==
    IF Referenced(table, i)
    THEN [err |-> "IntegrityError", images |-> imgs, jobs |-> table]
    ELSE [err |-> "", images |-> Drop(imgs, i), jobs |-> table]

\* Mutant: a status that is already set is kept.
NewStatus_KeepFirst(old, status) == IF old = None THEN status ELSE old

\* target_image_job.status = updated_details.status
NewStatus(old, status) == status

\* Mutant: a destination that is already set is kept.
NewDestination_KeepFirst(old, id) == IF old = NoId THEN id ELSE old

\* source_image_job.destination_image_id = new_image.id
NewDestination(old, id) == id

\* The UPDATE of the status callback: target_image_job.status = ...; commit.
ApplyStatus(table, j, status) ==
    [table EXCEPT ![j].status = NewStatus(table[j].status, status)]

\* Mutant: the finalize callback also marks the job as done.
ApplyFinalize_MarksSuccess(table, j, id) ==
    [table EXCEPT ![j].destination_image_id = id, ![j].status = "success"]

\* The UPDATE of the finalize callback: source_image_job.destination_image_id = ...;
\* commit. Only the changed column is written.
ApplyFinalize(table, j, id) ==
    [table EXCEPT ![j].destination_image_id =
                      NewDestination(table[j].destination_image_id, id)]

\* Mutant: a failed storage write is not noticed.
UploadFailed_Ignored(r) == FALSE

\* storage.upload_file raised
UploadFailed(r) == r.err # ""

\* The lookup every worker callback starts with: select(ProcessingJob) by id,
\* one_or_none(), and the 404 when there is no committed row.
JobLookup(table, j) == IF j \in DOMAIN table THEN "" ELSE "404 No such job."

ServiceOp(op, err, id, arg, was) == Op(op, err, NoName, None, NoName, id, arg, was)

-----------------------------------------------------------------------------
(* main.py: startup and the request handlers *)

Init ==
    /\ phase = "boot"
    /\ settings \in Environments
    /\ store = InitialStore(IF settings.storage_backend = "azure" THEN "azure" ELSE "local")
    /\ lastOp = NoOp
    /\ images = << >>
    /\ jobs = << >>
    /\ nextImage = 0
    /\ nextJob = 0
    /\ req = [t \in Tasks |-> IdleReq]
    /\ awaiting = FALSE
    /\ toWorker = << >>
    /\ toService = << >>
    /\ sentLog = {}
    /\ submitRes = << >>
    /\ fin = IdleFin
    /\ CreationIdle

\* Import of the modules (settings = Settings()) and the lifespan of the app.
Startup ==
    /\ phase = "boot"
    /\ phase' = IF LoadSettings(settings).err = "" THEN "running" ELSE "failed"
    /\ UNCHANGED <<settings, creation, store, lastOp, images, jobs, nextImage, nextJob, req, awaiting,
                   toWorker, toService, sentLog, submitRes, fin>>

\* A request that finds no such image or job: a 404 response and no effect.
NotFound404 == UNCHANGED vars

\* A request that ends with an error response and no effect.
Fails(op, err, id) ==
    /\ lastOp' = ServiceOp(op, err, id, None, None)
    /\ UNCHANGED <<phase, settings, creation, store, images, jobs, nextImage, nextJob, req, awaiting,
                   toWorker, toService, sentLog, submitRes, fin>>

\* POST /images
UploadNewImage(u, name, data, fault) ==
    /\ phase = "running"
    /\ IF StorageFails THEN Fails("upload_new_image", "RuntimeError", NoId)
       ELSE LET r == UploadFile(Kind, store, name, data, fault)
                id == nextImage + 1
            IN  IF UploadFailed(r) THEN
                    /\ store' = r.store
                    /\ lastOp' = ServiceOp("upload_new_image", r.err, NoId, None, None)
                    /\ UNCHANGED <<phase, settings, creation, images, jobs, nextImage, nextJob, req,
                                   awaiting, toWorker, toService, sentLog, submitRes, fin>>
                ELSE
                    /\ nextImage < MaxUploads
                    /\ store' = r.store
                    /\ images' = Put(images, id, Image(name, r.name, u))
                    /\ nextImage' = id
                    /\ lastOp' = ServiceOp("upload_new_image", "", NoId, None, None)
                    /\ UNCHANGED <<phase, settings, creation, jobs, nextJob, req, awaiting, toWorker,
                                   toService, sentLog, submitRes, fin>>

\* DELETE /images/{image_id}
DeleteSpecificImage(u, i) ==
    /\ phase = "running"
    /\ IF StorageFails THEN Fails("delete_specific_image", "RuntimeError", i)
       ELSE IF i \notin DOMAIN images \/ images[i].owned_by_user_id # u
       THEN NotFound404
       ELSE LET r == DeleteFile(Kind, store, images[i].file_path)
                d == DeleteImageRow(images, jobs, i)
            IN  IF r.err # "" THEN Fails("delete_specific_image", r.err, i)
                ELSE
                    /\ store' = r.store
                    /\ images' = d.images
                    /\ jobs' = d.jobs
                    /\ lastOp' = ServiceOp("delete_specific_image", d.err, i, None, None)
                    /\ UNCHANGED <<phase, settings, creation, nextImage, nextJob, req, awaiting,
                                   toWorker, toService, sentLog, submitRes, fin>>

\* GET /images/{image_id}/download: reads the stored object, changes nothing.
DownloadSpecificImage(u, i) ==
    /\ phase = "running"
    /\ IF StorageFails THEN Fails("download_specific_image", "RuntimeError", i)
       ELSE IF i \notin DOMAIN images \/ images[i].owned_by_user_id # u THEN NotFound404
       ELSE LET r == DownloadFile(Kind, store, images[i].file_path)
            IN  /\ lastOp' = Op("download_specific_image", r.err, NoName, r.data, NoName, i,
                                None, None)
                /\ UNCHANGED <<phase, settings, creation, store, images, jobs, nextImage, nextJob, req,
                               awaiting, toWorker, toService, sentLog, submitRes, fin>>

\* The jobs in the response of GET /images/{image_id}/jobs made as user u: selected
\* by source_image_id alone.
JobsListed(table, u, i) == {j \in DOMAIN table : table[j].source_image_id = i}

\* The jobs in the response of GET /images/{image_id}/jobs/{job_id} made as user u:
\* selected by source_image_id and id (none: 404).
JobShown(table, u, i, j) ==
    {k \in DOMAIN table : table[k].source_image_id = i /\ k = j}

\* The images in the responses of GET /images and GET /images/{image_id} made as user u.
ImagesListed(imgs, u) == {i \in DOMAIN imgs : imgs[i].owned_by_user_id = u}

\* GET /images/{image_id}/jobs: reads the jobs, changes nothing.
GetAllImageJobs(u, i) ==
    /\ phase = "running"
    /\ UNCHANGED vars

\* GET /images/{image_id}/jobs/{job_id}: reads the job, changes nothing.
GetSpecificImageJob(u, i, j) ==
    /\ phase = "running"
    /\ UNCHANGED vars

\* POST /images/{image_id}/jobs, up to database.add and the assignment of the job id
SubmitStart(t, u, i, job_name, width, height, format) ==
    /\ phase = "running"
    /\ req[t].pc = "idle"
    /\ IF i \notin DOMAIN images \/ images[i].owned_by_user_id # u
       THEN NotFound404
       ELSE IF ~SupportedFormat(format)
       THEN Fails("submit_new_processing_job", "404 Incorrect image format.", NoId)
       ELSE LET id == nextJob + 1
                payload == InternalImageProcessingJob(NoId, images[i].file_path, width,
                                                      height, format)
                row == ProcessingJob(job_name, i, ModelDumpJson(payload))
            IN  /\ nextJob < MaxJobs
                /\ nextJob' = id
                /\ jobs' = RowsAfterAdd(jobs, id, row)
                /\ req' = [req EXCEPT ![t] =
                             [pc |-> "added", job |-> id, row |-> row,
                              envelope |-> [payload EXCEPT !.job_id = id]]]
                /\ UNCHANGED <<phase, settings, creation, store, lastOp, images, nextImage, awaiting,
                               toWorker, toService, sentLog, submitRes, fin>>

\* The request of task t ends with the exception raised by submit_processing_job.
SubmitRaises(t, res) ==
    /\ req' = SessionDiscard(t)
    /\ submitRes' = Put(submitRes, req[t].job, res)
    /\ lastOp' = lastOp

\* self._zmq_socket.send on the shared REQ socket, which no lock guards. With no
\* request outstanding the envelope goes out. With the request of another task
\* outstanding two threads use the socket at once: the send is refused (EFSM), or it
\* goes out as well.
SubmitSend(t) ==
    /\ req[t].pc = "added"
    /\ \/ /\ ~awaiting
          /\ toWorker' = Append(toWorker, ModelDumpJson(req[t].envelope))
          /\ sentLog' = sentLog \cup {ModelDumpJson(req[t].envelope)}
          /\ awaiting' = TRUE
          /\ req' = [req EXCEPT ![t].pc = "sent"]
          /\ UNCHANGED <<phase, settings, creation, store, lastOp, images, jobs, nextImage, nextJob,
                         toService, submitRes, fin>>
       \/ /\ awaiting
          /\ SubmitRaises(t, "ZMQError")
          /\ UNCHANGED <<phase, settings, creation, store, images, jobs, nextImage, nextJob, awaiting,
                         toWorker, toService, sentLog, fin>>
       \/ /\ awaiting
          /\ toWorker' = Append(toWorker, ModelDumpJson(req[t].envelope))
          /\ sentLog' = sentLog \cup {ModelDumpJson(req[t].envelope)}
          /\ req' = [req EXCEPT ![t].pc = "sent"]
          /\ UNCHANGED <<phase, settings, creation, store, lastOp, images, jobs, nextImage, nextJob,
                         awaiting, toService, submitRes, fin>>

\* The worker takes the next request and answers it.
WorkerReply(reply) ==
    /\ Len(toWorker) > 0
    /\ toWorker' = Tail(toWorker)
    /\ toService' = Append(toService, reply)
    /\ UNCHANGED <<phase, settings, creation, store, lastOp, images, jobs, nextImage, nextJob, req,
                   awaiting, sentLog, submitRes, fin>>

\* self._zmq_socket.recv and the check of the confirmation: blocks until a reply is
\* there and takes the oldest one. A task whose exchange the recv of another task has
\* closed meanwhile is refused (EFSM) or takes the next reply.
SubmitRecv(t) ==
    /\ req[t].pc = "sent"
    /\ \/ /\ Len(toService) > 0
          /\ toService' = Tail(toService)
          /\ awaiting' = FALSE
          /\ LET reply == Head(toService)
             IN  IF reply = "malformed" THEN
                     /\ SubmitRaises(t, "ValidationError")
                     /\ UNCHANGED <<phase, settings, creation, store, images, jobs, nextImage,
                                    nextJob, toWorker, sentLog, fin>>
                 ELSE IF reply = "rejected" THEN
                     /\ SubmitRaises(t, "Exception")
                     /\ UNCHANGED <<phase, settings, creation, store, images, jobs, nextImage,
                                    nextJob, toWorker, sentLog, fin>>
                 ELSE
                     /\ req' = [req EXCEPT ![t].pc = "confirmed"]
                     /\ submitRes' = Put(submitRes, req[t].job, "ok")
                     /\ UNCHANGED <<phase, settings, creation, store, lastOp, images, jobs,
                                    nextImage, nextJob, toWorker, sentLog, fin>>
       \/ /\ ~awaiting
          /\ SubmitRaises(t, "ZMQError")
          /\ UNCHANGED <<phase, settings, creation, store, images, jobs, nextImage, nextJob, awaiting,
                         toWorker, toService, sentLog, fin>>

\* database.commit() of the request: the row is inserted, unless its source image
\* is gone by now.
SubmitCommit(t) ==
    /\ req[t].pc = "confirmed"
    /\ req' = [req EXCEPT ![t] = IdleReq]
    /\ IF req[t].row.source_image_id \in DOMAIN images
       THEN jobs' = Put(jobs, req[t].job, req[t].row)
       ELSE jobs' = jobs
    /\ UNCHANGED <<phase, settings, creation, store, lastOp, images, nextImage, nextJob, awaiting, toWorker,
                   toService, sentLog, submitRes, fin>>

\* PATCH /worker/jobs/{job_id}
UpdateJobStatusFromWorker(j, status) ==
    /\ phase = "running"
    /\ IF JobLookup(jobs, j) # "" THEN NotFound404
       ELSE /\ jobs' = ApplyStatus(jobs, j, status)
            /\ lastOp' = ServiceOp("update_job_status_from_worker", "", j, status,
                                   jobs[j].status)
            /\ UNCHANGED <<phase, settings, creation, store, images, nextImage, nextJob, req, awaiting,
                           toWorker, toService, sentLog, submitRes, fin>>

\* POST /worker/jobs/{job_id}/finalize, up to the return of storage.upload_file
FinalizeStore(j, name, data, fault) ==
    /\ phase = "running"
    /\ fin.pc = "idle"
    /\ IF StorageFails THEN Fails("upload_proceessed_image_from_worker", "RuntimeError", j)
       ELSE IF JobLookup(jobs, j) # ""
       THEN NotFound404
       ELSE IF jobs[j].source_image_id \notin DOMAIN images
       THEN NotFound404
       ELSE LET r == UploadFile(Kind, store, name, data, fault)
            IN  /\ store' = r.store
                /\ IF UploadFailed(r) THEN
                       /\ lastOp' = ServiceOp("upload_proceessed_image_from_worker", r.err,
                                              j, None, None)
                       /\ fin' = fin
                   ELSE
                       /\ nextImage < MaxImages
                       /\ lastOp' = lastOp
                       /\ fin' = [pc |-> "stored", job |-> j, path |-> r.name,
                                  file_name |-> name, data |-> data,
                                  owner |-> images[jobs[j].source_image_id].owned_by_user_id,
                                  err |-> r.err]
                /\ UNCHANGED <<phase, settings, creation, images, jobs, nextImage, nextJob, req,
                               awaiting, toWorker, toService, sentLog, submitRes>>

\* ... the new Image is committed, then the job's destination_image_id
FinalizeCommit ==
    /\ fin.pc = "stored"
    /\ nextImage < MaxImages
    /\ LET id == nextImage + 1
       IN  /\ images' = Put(images, id, Image(fin.file_name, fin.path, fin.owner))
           /\ nextImage' = id
           /\ jobs' = ApplyFinalize(jobs, fin.job, id)
           /\ lastOp' = ServiceOp("upload_proceessed_image_from_worker", "", fin.job, None,
                                  None)
    /\ fin' = IdleFin
    /\ UNCHANGED <<phase, settings, creation, store, nextJob, req, awaiting, toWorker, toService,
                   sentLog, submitRes>>

Next ==
    \/ Startup
    \/ \E u \in Uploaders, name \in UploadNames, data \in UploadBytes,
          fault \in UploadFaults :
           UploadNewImage(u, name, data, fault)
    \/ \E u \in Users, i \in ImageIds : DeleteSpecificImage(u, i)
    \/ \E u \in Users, i \in ImageIds : DownloadSpecificImage(u, i)
    \/ \E u \in Users, i \in ImageIds : GetAllImageJobs(u, i)
    \/ \E u \in Users, i \in ImageIds, j \in JobIds : GetSpecificImageJob(u, i, j)
    \/ \E t \in Tasks, u \in Users, i \in ImageIds, job_name \in JobNames, width \in Sizes,
          height \in Sizes, format \in RequestFormats :
           SubmitStart(t, u, i, job_name, width, height, format)
    \/ \E t \in Tasks : SubmitSend(t)
    \/ \E reply \in Replies : WorkerReply(reply)
    \/ \E t \in Tasks : SubmitRecv(t)
    \/ \E t \in Tasks : SubmitCommit(t)
    \/ \E j \in JobIds, status \in Statuses : UpdateJobStatusFromWorker(j, status)
    \/ \E j \in JobIds, name \in ResultNames, data \in UploadBytes, fault \in UploadFaults :
           FinalizeStore(j, name, data, fault)
    \/ FinalizeCommit

Spec == Init /\ [][Next]_vars

-----------------------------------------------------------------------------
(* The storage backend alone *)

ServiceIdle ==
    /\ images = << >>
    /\ jobs = << >>
    /\ nextImage = 0
    /\ nextJob = 0
    /\ req = [t \in Tasks |-> IdleReq]
    /\ awaiting = FALSE
    /\ toWorker = << >>
    /\ toService = << >>
    /\ sentLog = {}
    /\ submitRes = << >>
    /\ fin = IdleFin
    /\ CreationIdle

ServiceUnchanged ==
    UNCHANGED <<phase, settings, creation, images, jobs, nextImage, nextJob, req, awaiting,
                toWorker, toService, sentLog, submitRes, fin>>

StorageInit ==
    /\ phase = "running"
    /\ \E kind \in Backends : settings = ValidSettings(kind) /\ store = InitialStore(kind)
    /\ lastOp = NoOp
    /\ ServiceIdle

StUpload(name, data, fault) ==
    LET r == UploadFile(Kind, store, name, data, fault)
    IN  /\ store' = r.store
        /\ lastOp' = StorageOp("upload", name, data, r)
        /\ ServiceUnchanged

StDownload(name) ==
    LET r == DownloadFile(Kind, store, name)
    IN  /\ store' = r.store
        /\ lastOp' = StorageOp("download", name, r.data, r)
        /\ ServiceUnchanged

StDelete(name) ==
    LET r == DeleteFile(Kind, store, name)
    IN  /\ store' = r.store
        /\ lastOp' = StorageOp("delete", name, None, r)
        /\ ServiceUnchanged

StorageNext ==
    \/ \E name \in AllNames, data \in Bytes, fault \in Faults : StUpload(name, data, fault)
    \/ \E name \in AllNames : StDownload(name)
    \/ \E name \in AllNames : StDelete(name)

StorageSpec == StorageInit /\ [][StorageNext]_vars

-----------------------------------------------------------------------------
(* The decoding of a job envelope alone: model_validate_json on any message *)

\* Formats on the wire: every ImageFormat value, the name of the member DIP, a
\* lower-case spelling, and a format that does not exist.
WireFormats == ImageFormatValues \cup {"DIP", "png", "XYZ"}

\* Messages that decode, and messages with a field of the wrong JSON type.
WireEnvelopes ==
    [job_id : {JsonNull, JsonStr(1), JsonInt(7)},
     image_path : {JsonStr(<<"a">>)},
     resize_image_to_width : {JsonInt(100), JsonStr("wide")},
     resize_image_to_height : {JsonInt(100)},
     change_to_format : {JsonStr(f) : f \in WireFormats} \cup {JsonNull}]

DecodeInit ==
    /\ phase = "running"
    /\ settings = ValidSettings("local")
    /\ store = InitialStore("local")
    /\ lastOp = NoOp
    /\ images = << >> /\ jobs = << >> /\ nextImage = 0 /\ nextJob = 0
    /\ req = [t \in Tasks |-> IdleReq]
    /\ awaiting = FALSE
    /\ \E wire \in WireEnvelopes : toWorker = <<wire>>
    /\ toService = << >>
    /\ sentLog = {}
    /\ submitRes = << >>
    /\ fin = IdleFin
    /\ CreationIdle

\* The message is taken and decoded; the envelope object it yields is recorded (its
\* job_id in id, its image_path in name, its change_to_format in arg).
StDecode ==
    /\ Len(toWorker) > 0
    /\ LET r == ModelValidateJson(Head(toWorker))
       IN  lastOp' = Op("model_validate_json", r.err, r.job.image_path, None, NoName,
                        r.job.job_id, r.job.change_to_format, None)
    /\ toWorker' = Tail(toWorker)
    /\ UNCHANGED <<phase, settings, creation, store, images, jobs, nextImage, nextJob, req,
                   awaiting, toService, sentLog, submitRes, fin>>

DecodeNext == StDecode

DecodeSpec == DecodeInit /\ [][DecodeNext]_vars

\* C18: decoding an envelope whose target format is outside the ImageFormat set is
\* rejected: no decode yields an envelope object with an unsupported
\* change_to_format.
C18_DecodeRejectsUnsupportedFormat ==
    (lastOp.op = "model_validate_json" /\ lastOp.err = "") =>
        lastOp.arg \in ImageFormatValues

-----------------------------------------------------------------------------
(* The storage selector alone: get_storage_instance on any Settings object *)

SelectorTags == {"local", "LOCAL", "azure", "Azure", "s3"}

\* Settings objects with each Optional field present or None.
SelectorSettings ==
    [storage_backend : SelectorTags,
     local_filesystem_base_directory : {"/srv/root", None},
     azure_blob_storage_url : {"url", None},
     azure_blob_storage_container_name : {"container", None},
     azure_blob_storage_shared_key : {"key", None}]

SelectorInit ==
    /\ phase = "running"
    /\ settings \in SelectorSettings
    /\ store = << >>
    /\ lastOp = NoOp
    /\ ServiceIdle

\* One call of get_storage_instance(); the variant returned is recorded in arg.
StGetInstance ==
    LET r == GetStorageInstance(settings)
    IN  /\ lastOp.op = "none"
        /\ lastOp' = Op("get_storage_instance", r.err, NoName, None, NoName, 0, r.kind, None)
        /\ UNCHANGED store
        /\ ServiceUnchanged

SelectorNext == StGetInstance

SelectorSpec == SelectorInit /\ [][SelectorNext]_vars

\* The variant a discriminator names, whatever its case.
NamedVariant(tag) ==
    IF tag \in {"local", "LOCAL"} THEN "local"
    ELSE IF tag \in {"azure", "Azure"} THEN "azure"
    ELSE None

\* Every field the named variant needs is present.
ValidConfiguration(cfg) ==
    \/ /\ NamedVariant(cfg.storage_backend) = "local"
       /\ cfg.local_filesystem_base_directory # None
    \/ /\ NamedVariant(cfg.storage_backend) = "azure"
       /\ cfg.azure_blob_storage_url # None
       /\ cfg.azure_blob_storage_shared_key # None
       /\ cfg.azure_blob_storage_container_name # None

\* C11: get_storage_instance returns a backend exactly for a valid configuration, and
\* then the variant the discriminator names (compared without regard to case); an
\* unknown discriminator, a local variant without base directory and an azure
\* variant without URL, shared key or container name raise RuntimeError and return
\* nothing.
C11_SelectorRejectsInvalid ==
    lastOp.op = "get_storage_instance" =>
        IF ValidConfiguration(settings)
        THEN lastOp.err = "" /\ lastOp.arg = NamedVariant(settings.storage_backend)
        ELSE lastOp.err = "RuntimeError" /\ lastOp.arg = None

\* The selector has returned the azure variant for the discriminator "Azure" while the
\* base directory of the local variant is unset.
C11_Witness ==
    /\ lastOp.op = "get_storage_instance" /\ lastOp.arg = "azure"
    /\ settings.storage_backend = "Azure"
    /\ settings.local_filesystem_base_directory = None

-----------------------------------------------------------------------------
(* The two backend variants side by side: every call goes to a                   *)
(* LocalFileSystemStorage (store) and to an AzureBlobStorage (mirror) alike      *)

VariantsUnchanged ==
    UNCHANGED <<phase, settings, images, jobs, nextImage, nextJob, req, awaiting, toWorker,
                toService, sentLog, submitRes, fin, instances, sockets, dep>>

VariantsInit ==
    /\ phase = "running"
    /\ settings = ValidSettings("local")
    /\ store = InitialStore("local")
    /\ lastOp = NoOp
    /\ ServiceIdle

VUpload(name, data) ==
    /\ store' = LocalUpload(store, name, data, "none").store
    /\ mirror' = AzureUpload(mirror, name, data, "none").store
    /\ lastOp' = StorageOp("upload", name, data, LocalUpload(store, name, data, "none"))
    /\ VariantsUnchanged

VDownload(name) ==
    /\ lastOp' = StorageOp("download", name, LocalDownload(store, name).data,
                           LocalDownload(store, name))
    /\ UNCHANGED <<store, mirror>>
    /\ VariantsUnchanged

VDelete(name) ==
    /\ store' = LocalDelete(store, name).store
    /\ mirror' = AzureDelete(mirror, name).store
    /\ lastOp' = StorageOp("delete", name, None, LocalDelete(store, name))
    /\ VariantsUnchanged

VariantsNext ==
    \/ \E name \in PlainNames, data \in Bytes : VUpload(name, data)
    \/ \E name \in PlainNames : VDownload(name)
    \/ \E name \in PlainNames : VDelete(name)

VariantsSpec == VariantsInit /\ [][VariantsNext]_vars

\* The error category of an exception: NotFound, AccessDenied, Unavailable; any
\* other exception is a category of its own.
Category(err) ==
    IF err \in NotFoundErrors THEN "NotFound"
    ELSE IF err \in {"PermissionError", "ClientAuthenticationError"} THEN "AccessDenied"
    ELSE IF err \in {"OSError", "ServiceRequestError"} THEN "Unavailable"
    ELSE err

\* Two outcomes are the same: same error category, same returned name, same bytes.
SameOutcome(r, q) == Category(r.err) = Category(q.err) /\ r.name = q.name /\ r.data = q.data

\* C19: the variants are observationally equivalent: after every sequence of upload,
\* download and delete calls on separator-free names made on both, the next call
\* (an upload, also to a name already stored; a download or a delete, also of a name
\* not stored) has the same outcome on the local variant and on the object store.
C19_VariantsEquivalent ==
    \A name \in PlainNames :
        /\ SameOutcome(LocalDownload(store, name), AzureDownload(mirror, name))
        /\ SameOutcome(LocalDelete(store, name), AzureDelete(mirror, name))
        /\ \A data \in Bytes :
               SameOutcome(LocalUpload(store, name, data, "none"),
                           AzureUpload(mirror, name, data, "none"))

-----------------------------------------------------------------------------
(* The job submitter dependency alone: get_image_job_submitter in the threads of *)
(* the pool, which run Singleton.__call__ without a lock                         *)

SubmitterUnchanged ==
    UNCHANGED <<phase, settings, store, lastOp, images, jobs, nextImage, nextJob, req,
                awaiting, toWorker, toService, sentLog, submitRes, fin, mirror>>

\* if cls not in cls._instances
DepCheck(t) ==
    /\ dep[t].pc = "idle"
    /\ dep' = [dep EXCEPT ![t].pc = IF instances = NoId THEN "missing" ELSE "present"]
    /\ UNCHANGED <<instances, sockets>>
    /\ SubmitterUnchanged

\* super(Singleton, cls).__call__(): ImageJobSubmitter.__init__ opens a context and a
\* socket and connects it.
DepConstruct(t) ==
    /\ dep[t].pc = "missing"
    /\ sockets' = sockets + 1
    /\ dep' = [dep EXCEPT ![t] = [pc |-> "built", obj |-> sockets + 1]]
    /\ UNCHANGED instances
    /\ SubmitterUnchanged

\* cls._instances[cls] = <the new instance>
DepAssign(t) ==
    /\ dep[t].pc = "built"
    /\ instances' = dep[t].obj
    /\ dep' = [dep EXCEPT ![t] = [pc |-> "present", obj |-> NoId]]
    /\ UNCHANGED sockets
    /\ SubmitterUnchanged

\* return cls._instances[cls]: the handler gets the instance and submits on its socket.
DepReturn(t) ==
    /\ dep[t].pc = "present"
    /\ dep' = [dep EXCEPT ![t] = [pc |-> "resolved", obj |-> instances]]
    /\ UNCHANGED <<instances, sockets>>
    /\ SubmitterUnchanged

\* The request ends; the thread is free for the next one.
DepRelease(t) ==
    /\ dep[t].pc = "resolved"
    /\ dep' = [dep EXCEPT ![t] = IdleDep]
    /\ UNCHANGED <<instances, sockets>>
    /\ SubmitterUnchanged

SubmitterNext ==
    \/ \E t \in Threads : DepCheck(t)
    \/ \E t \in Threads : DepConstruct(t)
    \/ \E t \in Threads : DepAssign(t)
    \/ \E t \in Threads : DepReturn(t)
    \/ \E t \in Threads : DepRelease(t)

SubmitterSpec == StorageInit /\ [][SubmitterNext]_vars

\* C12: the connection to the worker is made once per process: at most one
\* ImageJobSubmitter (context, socket, connection) is ever created, and every
\* request is given that one.
C12_OneConnection ==
    /\ sockets <= 1
    /\ \A t \in Threads : dep[t].pc = "resolved" => dep[t].obj = 1

-----------------------------------------------------------------------------
(* Properties of the storage backend (checked under StorageSpec) *)

\* A name the backend can store an object under: its final segment names a file.
ValidName(name) == PathName(name) \notin {"", ".."}

\* C7: storage round trip. For every backend variant, when upload(name, bytes)
\* returns a stored name, download of that stored name yields exactly bytes (checked
\* in the state the upload leaves, before any other call); and no valid name is
\* refused as naming a directory.
C7_RoundTrip ==
    /\ (lastOp.op = "upload" /\ lastOp.err = "") =>
           LET d == DownloadFile(Kind, store, lastOp.ret)
           IN  d.err = "" /\ d.data = lastOp.data
    /\ (lastOp.op = "upload" /\ lastOp.err = "IsADirectoryError") => ~ValidName(lastOp.name)

\* An upload under a traversal name over an existing object succeeded (local), so the
\* stored name differs from the given one and the content was replaced.
C7_Witness ==
    /\ lastOp.op = "upload" /\ lastOp.err = ""
    /\ lastOp.name = <<"..", "a">> /\ lastOp.ret = <<"a">>
    /\ lastOp.data = "y"
    /\ DownloadFile(Kind, store, <<"a">>).data = "y"

\* The target a name resolves to does not exist in the backend.
TargetMissing(st, name) ==
    /\ StoredKey(Kind, name) \notin DOMAIN st
    /\ ~(Kind = "local" /\ IsDirectory(st, StoredKey(Kind, name)))

IsNotFound(st, name) == DownloadFile(Kind, st, name).err \in NotFoundErrors

\* C8: for every backend variant, after a successful delete(name) download(name)
\* fails with a not-found error, a name that downloads as not-found starts to
\* download again only through an upload to the same stored object, and delete(name)
\* of a name whose target is missing fails with a not-found error and changes nothing.
C8_DeleteNotFound ==
    /\ []((lastOp.op = "delete" /\ lastOp.err = "") => IsNotFound(store, lastOp.name))
    /\ [][\A n \in AllNames :
            /\ (IsNotFound(store, n) /\ ~IsNotFound(store', n)) =>
                   (/\ lastOp'.op = "upload"
                    /\ StoredKey(Kind, lastOp'.name) = StoredKey(Kind, n))
            /\ (lastOp'.op = "delete" /\ lastOp'.name = n /\ TargetMissing(store, n)) =>
                   (lastOp'.err \in NotFoundErrors /\ store' = store)]_vars

\* A delete of a name that is not stored has just failed with a not-found error.
C8_Witness ==
    /\ lastOp.op = "delete" /\ lastOp.err \in NotFoundErrors
    /\ lastOp.name = <<"a">>
    /\ \E k \in DOMAIN store : k # OutsideFile

\* The entry directly inside the base directory named by the final segment of a name.
InsideEntry(name) == BaseDir \o <<PathName(name)>>

\* C9: under the local variant every file lies directly inside the base directory,
\* except the one outside it, which keeps its content; a call given any name (with
\* separators, parent segments, absolute) changes no entry other than the one inside
\* the base directory named by the final segment, and a download returns that entry.
C9_BasenameOnly ==
    /\ [](Kind = "local" =>
            /\ OutsideFile \in DOMAIN store /\ store[OutsideFile] = SecretBytes
            /\ \A k \in DOMAIN store :
                   k = OutsideFile \/ (Len(k) = Len(BaseDir) + 1 /\ IsPrefix(BaseDir, k))
            /\ (lastOp.op = "download" /\ lastOp.err = "") =>
                   (/\ InsideEntry(lastOp.name) \in DOMAIN store
                    /\ lastOp.data = store[InsideEntry(lastOp.name)]))
    /\ [][Kind = "local" =>
            \A k \in DOMAIN store \cup DOMAIN store' :
                k # InsideEntry(lastOp'.name) =>
                    (k \in DOMAIN store /\ k \in DOMAIN store' /\ store[k] = store'[k])]_vars

\* An upload under the absolute name of the outside file succeeded and wrote the entry
\* of that final segment inside the base directory.
C9_Witness ==
    /\ Kind = "local"
    /\ lastOp.op = "upload" /\ lastOp.err = "" /\ lastOp.name = <<"", "srv", "secret">>
    /\ (BaseDir \o <<"secret">>) \in DOMAIN store
    /\ store[BaseDir \o <<"secret">>] = lastOp.data

-----------------------------------------------------------------------------
(* Properties of the service (checked under Spec) *)

\* C1: submit calls issued concurrently by different request tasks exclude one
\* another: a request is sent on the channel only after the reply to the request
\* before it has been received, so at no time have two tasks sent and not yet
\* received, and never is more than one message in flight.
C1_MutualExclusion ==
    /\ \A t1, t2 \in Tasks :
           t1 # t2 => ~(req[t1].pc = "sent" /\ req[t2].pc = "sent")
    /\ Len(toWorker) + Len(toService) <= 1

\* C2: a ProcessingJob row is in the table only after submit_processing_job has
\* returned for it; a request whose submit raised (worker rejected, reply malformed,
\* transport error) or that is still before or inside submit has no row, and a
\* request rejected for its format changes neither the table nor the ids.
C2_DurableOnlyAfterSubmit ==
    /\ [](/\ \A j \in DOMAIN jobs : j \in DOMAIN submitRes /\ submitRes[j] = "ok"
          /\ \A j \in DOMAIN submitRes : submitRes[j] # "ok" => j \notin DOMAIN jobs
          /\ \A t \in Tasks :
                 req[t].pc \in {"added", "sent"} => req[t].job \notin DOMAIN jobs)
    /\ [][(lastOp' # lastOp /\ lastOp'.err = "404 Incorrect image format.") =>
              (jobs' = jobs /\ nextJob' = nextJob /\ req' = req)]_vars

\* One job was rejected by the worker and has no row, another is committed.
C2_Witness ==
    \E j, k \in JobIds :
        /\ j \in DOMAIN submitRes /\ submitRes[j] = "Exception" /\ j \notin DOMAIN jobs
        /\ k \in DOMAIN jobs

\* C3: no envelope with a change_to_format outside ImageFormat is ever put on the
\* channel, nor held by a request that got past the format check.
C3_FormatCheckedBeforeSend ==
    /\ \A m \in sentLog : m.change_to_format.v \in ImageFormatValues
    /\ \A k \in 1..Len(toWorker) : toWorker[k].change_to_format.v \in ImageFormatValues
    /\ \A t \in Tasks :
           req[t].pc # "idle" => req[t].envelope.change_to_format \in ImageFormatValues

\* A request with an unsupported format has just been rejected, after another
\* request's envelope went out.
C3_Witness ==
    /\ lastOp.op = "submit_new_processing_job"
    /\ lastOp.err = "404 Incorrect image format."
    /\ sentLog # {}

Finalize == "upload_proceessed_image_from_worker"

\* C4: the finalize callback goes on to its commits only when the storage write
\* succeeded; when it does, the backend holds the result bytes under the returned
\* name and no job has changed yet; a job's destination_image_id changes only in the
\* commit of such a callback, to the Image of that stored name; and a callback whose
\* storage write failed leaves every job as it was.
C4_StoreThenSetDestination ==
    /\ [](fin.pc = "stored" => fin.err = "")
    /\ [][(fin.pc = "idle" /\ fin'.pc = "stored") =>
              /\ StoredKey(Kind, fin'.path) \in DOMAIN store'
              /\ store'[StoredKey(Kind, fin'.path)] = fin'.data
              /\ jobs' = jobs]_vars
    /\ [][\A j \in DOMAIN jobs :
              (j \in DOMAIN jobs' /\
               jobs'[j].destination_image_id # jobs[j].destination_image_id) =>
                  /\ fin.pc = "stored" /\ fin.job = j /\ fin.err = ""
                  /\ jobs'[j].destination_image_id \in DOMAIN images'
                  /\ images'[jobs'[j].destination_image_id].file_path = fin.path]_vars
    /\ [][(lastOp' # lastOp /\ lastOp'.op = Finalize /\ lastOp'.err # "") =>
              jobs' = jobs]_vars

\* A finalize callback has just failed in its storage write and its job has no
\* destination, while another job was finalized.
C4_Witness ==
    /\ lastOp.op = Finalize /\ lastOp.err = "OSError"
    /\ lastOp.id \in DOMAIN jobs
    /\ jobs[lastOp.id].destination_image_id = NoId
    /\ \E k \in DOMAIN jobs : jobs[k].destination_image_id # NoId

UpdateStatus == "update_job_status_from_worker"

\* C5: the status callback is last-write-wins: as long as no later callback or
\* finalize is recorded, the job has the status of the last status callback, whatever
\* submit steps, worker replies and rejected requests come in between; a job's status
\* changes only by a status callback for that job, to the status given; and a
\* callback with the status the job already has leaves the table as it is.
C5_StatusLastWriteWins ==
    /\ [](lastOp.op = UpdateStatus =>
            (lastOp.id \in DOMAIN jobs /\ jobs[lastOp.id].status = lastOp.arg))
    /\ [][\A j \in DOMAIN jobs :
              (j \in DOMAIN jobs' /\ jobs'[j].status # jobs[j].status) =>
                  /\ lastOp'.op = UpdateStatus /\ lastOp'.id = j
                  /\ lastOp'.arg = jobs'[j].status]_vars
    /\ [][(lastOp' # lastOp /\ lastOp'.op = UpdateStatus /\ lastOp'.was = lastOp'.arg) =>
              jobs' = jobs]_vars

\* A finalized job whose status was "success" has just been set to "processing".
C5_Witness ==
    /\ lastOp.op = UpdateStatus /\ lastOp.was = "success" /\ lastOp.arg = "processing"
    /\ jobs[lastOp.id].status = "processing"
    /\ jobs[lastOp.id].destination_image_id # NoId

\* C6: no step takes a job out of Finalized: a job with a destination_image_id
\* keeps a destination_image_id (and stays in the table).
C6_FinalizedStays ==
    [][\A j \in DOMAIN jobs :
           jobs[j].destination_image_id # NoId =>
               (j \in DOMAIN jobs' /\ jobs'[j].destination_image_id # NoId)]_vars

\* The destination image of a finalized job has just been asked to be deleted.
C6_Witness ==
    /\ lastOp.op = "delete_specific_image"
    /\ \E j \in DOMAIN jobs :
           jobs[j].destination_image_id = lastOp.id /\ jobs[j].status # None

\* C13: the job lifecycle of the end-to-end scenario. A job row appears only for a job
\* the worker accepted, on an uploaded image, with status and destination absent
\* (Submitted); a status callback sets the status and nothing else of the row
\* (Reported); the commit of a finalize callback sets the destination to a new Image
\* of the stored name and keeps the status (Finalized).
C13_Lifecycle ==
    /\ [][\A j \in JobIds :
              (j \notin DOMAIN jobs /\ j \in DOMAIN jobs') =>
                  /\ jobs'[j].status = None
                  /\ jobs'[j].destination_image_id = NoId
                  /\ j \in DOMAIN submitRes /\ submitRes[j] = "ok"
                  /\ jobs'[j].source_image_id \in DOMAIN images]_vars
    /\ [][\A j \in DOMAIN jobs :
              (lastOp' # lastOp /\ lastOp'.op = UpdateStatus /\ lastOp'.id = j) =>
                  jobs' = [jobs EXCEPT ![j].status = lastOp'.arg]]_vars
    /\ [][(fin.pc = "stored" /\ fin'.pc = "idle") =>
              LET j == fin.job
                  d == jobs'[j].destination_image_id
              IN  /\ d \notin DOMAIN images /\ d \in DOMAIN images'
                  /\ images'[d] = Image(fin.file_name, fin.path, fin.owner)
                  /\ jobs' = [jobs EXCEPT ![j].destination_image_id = d]]_vars

\* The scenario has run: the only job was accepted, reported "processing" and has just
\* been finalized; its result object is stored and its status is still "processing".
C13_Witness ==
    /\ lastOp.op = Finalize /\ lastOp.err = ""
    /\ DOMAIN jobs = {1} /\ lastOp.id = 1
    /\ jobs[1].status = "processing"
    /\ jobs[1].destination_image_id = 2
    /\ jobs[1].source_image_id = 1
    /\ DownloadFile(Kind, store, images[2].file_path).err = ""

\* C14: once the worker has accepted a job (the confirmation with is_ok = true was
\* received for it), a status, finalize or download-source-image callback for that
\* job finds the job record at any later moment and is not answered "No such job".
C14_CallbacksFindAcceptedJob ==
    \A j \in DOMAIN submitRes :
        submitRes[j] = "ok" => JobLookup(jobs, j) # "404 No such job."

\* C15: each submit call puts exactly one request on the channel and takes exactly
\* one reply, and no request is sent again: the channel grows only by the envelope
\* of a task that moves from its send to its recv, an envelope that was never sent
\* before; a task leaves its send only by putting its envelope on the channel, and
\* leaves its recv only by taking one reply.
C15_OneRequestOneReply ==
    /\ [][Len(toWorker') > Len(toWorker) =>
              \E t \in Tasks :
                  /\ req[t].pc = "added" /\ req'[t].pc = "sent"
                  /\ toWorker' = Append(toWorker, ModelDumpJson(req[t].envelope))
                  /\ ModelDumpJson(req[t].envelope) \notin sentLog]_vars
    /\ [][\A t \in Tasks :
              (req[t].pc = "added" /\ req'[t].pc # "added") =>
                  toWorker' = Append(toWorker, ModelDumpJson(req[t].envelope))]_vars
    /\ [][\A t \in Tasks :
              (req[t].pc = "sent" /\ req'[t].pc # "sent") =>
                  (Len(toService) > 0 /\ toService' = Tail(toService))]_vars

\* C16: a submit call completes only through a reply: a task that has sent its
\* request leaves submit_processing_job (returns or raises) only in a step in which
\* a reply of the worker is there and is taken; with no reply it stays where it is.
C16_CompletesOnlyThroughReply ==
    [][\A t \in Tasks :
           (req[t].pc = "sent" /\ Len(toService) = 0) => req'[t].pc = "sent"]_vars

C20_CallerScoped ==
    \A u \in Users :
        /\ \A i \in ImagesListed(images, u) : images[i].owned_by_user_id = u
        /\ \A i \in ImageIds, j \in JobIds :
               \A k \in JobsListed(jobs, u, i) \cup JobShown(jobs, u, i, j) :
                   /\ jobs[k].source_image_id \in DOMAIN images
                   /\ images[jobs[k].source_image_id].owned_by_user_id = u

\* C21: for every ProcessingJob row in the table, the envelope kept in
\* job_json_payload is the envelope that was sent to the worker for that job: same
\* image_path, width, height and format, and a job_id that is the row's own id.
C21_PayloadIsSentEnvelope ==
    \A j \in DOMAIN jobs :
        /\ jobs[j].job_json_payload \in sentLog
        /\ jobs[j].job_json_payload.job_id = JsonStr(j)

\* What the backend returns for the object an Image record names.
ObjectOf(st, img) == DownloadFile(Kind, st, img.file_path)

\* C22: records and stored objects stay consistent: the file_path of every Image row
\* names an object that is in the backend and holds uploaded bytes, and the delete of
\* one image neither removes nor changes the object of another Image row.
C22_RecordsMatchObjects ==
    /\ [](\A i \in DOMAIN images :
             ObjectOf(store, images[i]).err = "" /\ ObjectOf(store, images[i]).data \in UploadBytes)
    /\ [][(lastOp' # lastOp /\ lastOp'.op = "delete_specific_image") =>
              \A k \in DOMAIN images' :
                  k # lastOp'.id => ObjectOf(store', images'[k]) = ObjectOf(store, images[k])]_vars

\* C23: status and finalize callbacks are independent and commute. In every state,
\* for every job, the status update and the destination update give the same row in
\* either order; a status callback changes the status of its job and nothing else
\* (no other column, no other job, no image, no object); the commit of a finalize
\* callback changes no status and no other job.
C23_StatusFinalizeCommute ==
    /\ [](\A j \in DOMAIN jobs, status \in Statuses, id \in ImageIds :
             ApplyFinalize(ApplyStatus(jobs, j, status), j, id)
                 = ApplyStatus(ApplyFinalize(jobs, j, id), j, status))
    /\ [][(lastOp' # lastOp /\ lastOp'.op = UpdateStatus) =>
              /\ \A k \in DOMAIN jobs :
                     jobs'[k] = IF k = lastOp'.id
                                THEN [jobs[k] EXCEPT !.status = lastOp'.arg]
                                ELSE jobs[k]
              /\ DOMAIN jobs' = DOMAIN jobs
              /\ images' = images /\ store' = store /\ fin' = fin]_vars
    /\ [][(fin.pc = "stored" /\ fin'.pc = "idle") =>
              \A k \in DOMAIN jobs :
                  /\ jobs'[k].status = jobs[k].status
                  /\ k # fin.job => jobs'[k] = jobs[k]]_vars

\* A status callback for a job has just been applied while a finalize callback for
\* the same job has stored its bytes and not yet committed.
C23_Witness ==
    /\ lastOp.op = UpdateStatus /\ lastOp.arg = "processing"
    /\ fin.pc = "stored" /\ fin.job = lastOp.id
    /\ jobs[lastOp.id].status = "processing"
    /\ jobs[lastOp.id].destination_image_id = NoId

\* C10: a storage misconfiguration is found at startup: no request is ever answered
\* with the configuration error of the storage selector.
C10_MisconfigurationFoundAtStartup ==
    lastOp.err # "RuntimeError"

====
